---- MODULE Spec2Model ----
(***************************************************************************)
(* Model of mst_clustering/clustering_models.py: the divisive engine       *)
(* ZahnModel.__call__ with its three criteria, and the refinement loop of  *)
(* GathGevaModel.__call__.                                                 *)
(*                                                                         *)
(* Points are 1-D integer coordinates, so an edge weight and a distance    *)
(* are integers; the cutting coefficient is a rational num/den and every   *)
(* comparison "w >= c * sum / k" (k > 0) is checked as                     *)
(* "w * k * den >= num * sum", which agrees with the float comparison on   *)
(* these small integers.  Node indices are 0-based as in the source;       *)
(* positions in lists are 1-based (position i here is index i-1 there).    *)
(***************************************************************************)
EXTENDS Integers, Sequences, FiniteSets, TLC

VARIABLES
    scenario,             \* name of the input family the call was drawn from
    data,                 \* data: sequence of point coordinates (row i+1 = point i)
    forest,               \* SpanningForest: its edges, in insertion order
    roots,                \* forest.get_roots() for the current forest state
    cutting_cond,         \* self.cutting_cond as [num, den]
    hv_condition,         \* self.hv_condition
    num_of_clusters,      \* self.num_of_clusters
    use_first_criterion,
    use_second_criterion,
    use_third_criterion,
    workers,              \* max_workers of the pool
    pc,                   \* position of __call__: loop, wait, break, done, error
                          \* (third, third_done: a call of _check_third_criterion alone)
    futures,              \* the batch submitted at line 70
    out_of_order,         \* some task of the batch completed before an earlier-submitted one
    volumes,              \* line 74, last iteration
    hv,                   \* the hyper_volume kernel on the current clusters, as far as evaluated
    partition,            \* the matrix built at lines 104-107
    initial_forest,       \* the forest handed to __call__
    criterion_fired,      \* which criterion selected the cut of the last iteration (0: none)
    worst_edge,           \* the edge selected in the last iteration
    bad_cluster_edges,    \* line 77, last iteration
    max_weight,           \* line 82, last iteration
    third_evaluated,      \* the last iteration called _check_third_criterion
    gg_pc,                \* position of GathGevaModel.__call__
    gg_partition,         \* partition (memberships in tenths)
    gg_previous,          \* previous_partition
    gg_futures,           \* the batch submitted at line 242
    gg_tolerance,         \* self.termination_tolerance (in tenths)
    gg_workers

zahn_vars == <<scenario, data, forest, roots, cutting_cond, hv_condition, num_of_clusters,
               use_first_criterion, use_second_criterion, use_third_criterion, workers,
               pc, futures, out_of_order, volumes, hv, partition, initial_forest,
               criterion_fired, worst_edge, bad_cluster_edges, max_weight, third_evaluated>>

gg_vars == <<gg_pc, gg_partition, gg_previous, gg_futures, gg_tolerance, gg_workers>>

vars == <<zahn_vars, gg_vars>>

----
\* Bounds of the model.
MaxVolume == 2          \* finite hyper-volumes are 1..MaxVolume
MaxClusters == 3        \* max_num_of_clusters ranges over -1 and 1..MaxClusters

\* math.inf: larger than every finite sum, and absorbing under HvAdd.
Inf == 1000

HVValues == (1..MaxVolume) \cup {Inf}

\* hyper_volume (mst_clustering.math_utils), from its contract: +infinity for a
\* degenerate cluster (a single point has no dispersion), any value otherwise.
hyper_volume_values(ids) == IF Cardinality(ids) <= 1 THEN {Inf} ELSE HVValues

HvAdd(a, b) == IF a = Inf \/ b = Inf THEN Inf ELSE a + b

NoEdge == [first_node |-> -1, second_node |-> -1, weight |-> -1]

Range(s) == {s[i] : i \in 1..Len(s)}

\* The sequences that list every element of S once.
RECURSIVE Perms(_)
Perms(S) == IF S = {} THEN {<<>>}
            ELSE UNION {{<<x>> \o q : q \in Perms(S \ {x})} : x \in S}

Abs(x) == IF x < 0 THEN -x ELSE x

SetMin(S) == CHOOSE x \in S : \A y \in S : x <= y

RECURSIVE SumWeights(_)
SumWeights(edges) ==
    IF edges = <<>> THEN 0 ELSE edges[1].weight + SumWeights(Tail(edges))

\* np.argmax: the first position holding the maximum.
ArgMax(s) == CHOOSE i \in 1..Len(s) : /\ \A j \in 1..Len(s) : s[j] <= s[i]
                                      /\ \A j \in 1..(i - 1) : s[j] < s[i]

----
\* SpanningForest (mst_clustering.cpp_adapters), from its contract.
NodesOf(d) == 0..(Len(d) - 1)

Endpoints(edges) == {edges[i].first_node : i \in 1..Len(edges)}
                        \cup {edges[i].second_node : i \in 1..Len(edges)}

RECURSIVE Reach(_, _)
Reach(edges, S) ==
    LET T == S \cup {edges[i].second_node : i \in {k \in 1..Len(edges) : edges[k].first_node \in S}}
               \cup {edges[i].first_node : i \in {k \in 1..Len(edges) : edges[k].second_node \in S}}
    IN IF T = S THEN S ELSE Reach(edges, T)

Component(edges, n) == Reach(edges, {n})

Trees(edges, nodes) == {Component(edges, n) : n \in nodes}

size(edges, nodes) == Cardinality(Trees(edges, nodes))

get_edges(edges, root) ==
    LET comp == Component(edges, root)
    IN SelectSeq(edges, LAMBDA e : e.first_node \in comp)

remove_edge(edges, u, v) ==
    SelectSeq(edges, LAMBDA e : ~ \/ (e.first_node = u /\ e.second_node = v)
                                  \/ (e.first_node = v /\ e.second_node = u))

\* get_roots: one representative per tree, in an order the library chooses.
RootOrders(edges, nodes) == Perms({SetMin(t) : t \in Trees(edges, nodes)})

----
\* get_cluster_info without its branch for a tree that has no edge.
cluster_ids_without_singleton_branch(edges, root) == Endpoints(get_edges(edges, root))

\* ClusteringModel.get_cluster_info: the member ids (the centre is a function of them).
cluster_ids_of(edges, root) ==
    LET cluster_edges == get_edges(edges, root)
    IN IF cluster_edges = <<>> THEN {root} ELSE Endpoints(cluster_edges)

get_cluster_info(edges, rts, cluster_idx) == cluster_ids_of(edges, rts[cluster_idx])

----
\* _check_num_of_clusters off by one: the loop goes on at the bound.
check_num_of_clusters_inclusive ==
    num_of_clusters = -1 \/ size(forest, NodesOf(data)) <= num_of_clusters

\* ZahnModel._check_num_of_clusters
check_num_of_clusters ==
    num_of_clusters = -1 \/ size(forest, NodesOf(data)) < num_of_clusters

\* ZahnModel._check_first_criterion:
\*   edge_weight >= cutting_cond * sum(weights of all_edges) / (data.shape[0] - 1)
check_first_criterion(all_edges, edge_weight) ==
    edge_weight * (Len(data) - 1) * cutting_cond.den >= cutting_cond.num * SumWeights(all_edges)

\* np.argsort(edges_weights)[::-1]: ascending stable order, reversed, so the
\* heaviest edge comes first and equal weights come in descending position.
RECURSIVE sorted_indices(_, _)
sorted_indices(edges_weights, left) ==
    IF left = {} THEN <<>>
    ELSE LET i == CHOOSE k \in left : \A j \in left :
                       \/ edges_weights[j] < edges_weights[k]
                       \/ (edges_weights[j] = edges_weights[k] /\ j <= k)
         IN <<i>> \o sorted_indices(edges_weights, left \ {i})

\* KDTree(data).query_ball_point(x=data[node], r=r): the points within r (inclusive).
query_ball_point(node, r) ==
    {p \in NodesOf(data) : Abs(data[p + 1] - data[node + 1]) <= r}

\* The filter of lines 126-128 and 131-133.
neighbour_edges(all_edges, neighbours, first_node, second_node) ==
    SelectSeq(all_edges, LAMBDA edge :
        /\ (edge.first_node \in neighbours \/ edge.second_node \in neighbours)
        /\ (edge.first_node # first_node /\ edge.second_node # second_node))

\* ZahnModel._check_second_criterion: the position of the first edge, heaviest
\* first, that satisfies the local criterion; 0 stands for the source's -1.
RECURSIVE second_scan(_, _, _, _)
second_scan(order, all_edges, cluster_edges, edges_weights) ==
    IF order = <<>> THEN 0
    ELSE LET index == order[1]
             first_node == cluster_edges[index].first_node
             second_node == cluster_edges[index].second_node
             weight == edges_weights[index]
             first_edges ==
                 neighbour_edges(all_edges, query_ball_point(first_node, weight),
                                 first_node, second_node)
                 \o neighbour_edges(all_edges, query_ball_point(second_node, weight),
                                    first_node, second_node)
         IN IF Len(first_edges) < 2
              THEN second_scan(Tail(order), all_edges, cluster_edges, edges_weights)
            ELSE IF weight * (Len(first_edges) - 1) * cutting_cond.den
                        >= cutting_cond.num * SumWeights(first_edges)
              THEN index
            ELSE second_scan(Tail(order), all_edges, cluster_edges, edges_weights)

check_second_criterion(all_edges, cluster_edges, edges_weights) ==
    second_scan(sorted_indices(edges_weights, 1..Len(edges_weights)),
                all_edges, cluster_edges, edges_weights)

\* The two sub-clusters that removing cluster_edges[edge_index] from the scratch
\* forest leaves (lines 154-163): the ids get_cluster_info gives for the tree of
\* first_node and for the tree of second_node.
left_cluster_ids(cluster_edges, edge_index) ==
    LET e == cluster_edges[edge_index]
        temp_forest == remove_edge(cluster_edges, e.first_node, e.second_node)
    IN cluster_ids_of(temp_forest, e.first_node)

right_cluster_ids(cluster_edges, edge_index) ==
    LET e == cluster_edges[edge_index]
        temp_forest == remove_edge(cluster_edges, e.first_node, e.second_node)
    IN cluster_ids_of(temp_forest, e.second_node)

\* Every id set _check_third_criterion hands to hyper_volume.
third_sets(cluster_edges) ==
    {left_cluster_ids(cluster_edges, i) : i \in 1..Len(cluster_edges)}
        \cup {right_cluster_ids(cluster_edges, i) : i \in 1..Len(cluster_edges)}

\* The loop of _check_third_criterion with "<" for "<=": a tie keeps the earlier edge.
RECURSIVE third_scan_strict(_, _, _, _, _)
third_scan_strict(cluster_edges, kernel, inf_identity, edge_index, acc) ==
    IF edge_index > Len(cluster_edges) THEN acc
    ELSE LET left_hv == kernel[left_cluster_ids(cluster_edges, edge_index)]
             right_hv == kernel[right_cluster_ids(cluster_edges, edge_index)]
             skipped == inf_identity /\ (left_hv = Inf \/ right_hv = Inf)
             total_hv == HvAdd(left_hv, right_hv)
             next == IF ~skipped /\ total_hv < acc.min
                       THEN [idx |-> edge_index, min |-> total_hv]
                     ELSE acc
         IN third_scan_strict(cluster_edges, kernel, inf_identity, edge_index + 1, next)

\* The loop of lines 153-172 from edge_index on; acc = [idx, min] is
\* (bad_edge_index, min_total_hv).  "x is math.inf" is an identity test: it sees an
\* infinite result only when the kernel returned the math.inf object itself
\* (inf_identity); otherwise the infinite sum goes through the <= comparison.
RECURSIVE third_scan(_, _, _, _, _)
third_scan(cluster_edges, kernel, inf_identity, edge_index, acc) ==
    IF edge_index > Len(cluster_edges) THEN acc
    ELSE LET left_hv == kernel[left_cluster_ids(cluster_edges, edge_index)]
             right_hv == kernel[right_cluster_ids(cluster_edges, edge_index)]
             skipped == inf_identity /\ (left_hv = Inf \/ right_hv = Inf)
             total_hv == HvAdd(left_hv, right_hv)
             next == IF ~skipped /\ total_hv <= acc.min
                       THEN [idx |-> edge_index, min |-> total_hv]
                     ELSE acc
         IN third_scan(cluster_edges, kernel, inf_identity, edge_index + 1, next)

\* ZahnModel._check_third_criterion; NoEdge stands for None.
check_third_criterion(cluster_edges, kernel, inf_identity) ==
    LET acc == third_scan(cluster_edges, kernel, inf_identity, 1, [idx |-> 0, min |-> Inf])
    IN IF acc.min > hv_condition /\ acc.min # Inf THEN cluster_edges[acc.idx] ELSE NoEdge

----
\* The inputs of a call.
Edge(d, i, j) == [first_node |-> i, second_node |-> j, weight |-> Abs(d[j + 1] - d[i + 1])]

RECURSIVE EdgeSeq(_, _)
EdgeSeq(d, pairs) ==
    IF pairs = {} THEN <<>>
    ELSE LET p == CHOOSE x \in pairs : \A y \in pairs :
                       x[1] < y[1] \/ (x[1] = y[1] /\ x[2] <= y[2])
         IN <<Edge(d, p[1], p[2])>> \o EdgeSeq(d, pairs \ {p})

Path(d) == EdgeSeq(d, {<<i, i + 1>> : i \in 0..(Len(d) - 2)})

\* Every forest over the points of d: the acyclic sets of edges.
Forests(d) ==
    {f \in {EdgeSeq(d, P) : P \in SUBSET {<<i, j>> \in NodesOf(d) \X NodesOf(d) : i < j}} :
        size(f, NodesOf(d)) = Len(d) - Len(f)}

Datasets == {<<0>>, <<0, 1>>, <<0, 1, 3>>}

Collinear5 == <<0, 1, 2, 10, 11>>

Outlier5 == <<0, 1, 2, 3, 20>>

FourPoints == <<0, 1, 3, 7>>

CuttingConds == {[num |-> 5, den |-> 2], [num |-> 1, den |-> 1]}

HvConditions == {0, 2}

WorkerCounts == {1, 4}

ClusterBounds == {-1} \cup (1..MaxClusters)

ZahnIdle ==
    /\ futures = <<>>
    /\ out_of_order = FALSE
    /\ volumes = <<>>
    /\ hv = <<>>
    /\ partition = <<>>
    /\ initial_forest = forest
    /\ criterion_fired = 0
    /\ worst_edge = NoEdge
    /\ bad_cluster_edges = <<>>
    /\ max_weight = 0
    /\ third_evaluated = FALSE

GGOff ==
    /\ gg_pc = "off"
    /\ gg_partition = <<>>
    /\ gg_previous = <<>>
    /\ gg_futures = <<>>
    /\ gg_tolerance = 0
    /\ gg_workers = 0

\* Any forest over a small dataset, under any configuration.  A coefficient or a
\* tolerance that no enabled criterion reads keeps its default.
InitGeneral ==
    /\ scenario = "general"
    /\ data \in Datasets
    /\ forest \in Forests(data)
    /\ use_first_criterion \in BOOLEAN
    /\ use_second_criterion \in BOOLEAN
    /\ use_third_criterion \in BOOLEAN
    /\ cutting_cond \in IF use_first_criterion \/ use_second_criterion
                          THEN CuttingConds ELSE {[num |-> 5, den |-> 2]}
    /\ hv_condition \in IF use_third_criterion THEN HvConditions ELSE {0}
    /\ num_of_clusters \in ClusterBounds

\* Four points in one tree or in two trees of two points.
InitFourPoints ==
    /\ scenario = "four"
    /\ data = FourPoints
    /\ forest \in {Path(data), EdgeSeq(data, {<<0, 1>>, <<2, 3>>}),
                   EdgeSeq(data, {<<0, 1>>, <<1, 2>>, <<1, 3>>})}
    /\ \/ use_first_criterion = TRUE /\ use_second_criterion = FALSE /\ use_third_criterion = FALSE
       \/ use_first_criterion = FALSE /\ use_second_criterion = TRUE /\ use_third_criterion = FALSE
       \/ use_first_criterion = FALSE /\ use_second_criterion = FALSE /\ use_third_criterion = TRUE
       \/ use_first_criterion = TRUE /\ use_second_criterion = TRUE /\ use_third_criterion = TRUE
    /\ cutting_cond \in CuttingConds
    /\ hv_condition \in IF use_third_criterion THEN HvConditions ELSE {0}
    /\ num_of_clusters \in {-1, 2}

\* Five collinear points in one tree, criterion 1 alone, no cluster-count bound.
InitCollinear ==
    /\ scenario = "collinear"
    /\ data = Collinear5
    /\ forest = Path(data)
    /\ use_first_criterion = TRUE
    /\ use_second_criterion = FALSE
    /\ use_third_criterion = FALSE
    /\ cutting_cond = [num |-> 5, den |-> 2]
    /\ hv_condition = 0
    /\ num_of_clusters = -1

ZahnOff ==
    /\ scenario = "none"
    /\ data = <<>>
    /\ forest = <<>>
    /\ roots = <<>>
    /\ cutting_cond = [num |-> 5, den |-> 2]
    /\ hv_condition = 0
    /\ num_of_clusters = -1
    /\ use_first_criterion = TRUE
    /\ use_second_criterion = TRUE
    /\ use_third_criterion = TRUE
    /\ workers = 1
    /\ ZahnIdle
    /\ pc = "off"

Init ==
    /\ \/ InitGeneral
       \/ InitFourPoints
       \/ InitCollinear
    /\ roots \in RootOrders(forest, NodesOf(data))
    /\ workers \in WorkerCounts
    /\ pc = "loop"
    /\ ZahnIdle
    /\ GGOff

----
\* ZahnModel.__call__

ZahnConfig == <<scenario, data, cutting_cond, hv_condition, num_of_clusters,
                use_first_criterion, use_second_criterion, use_third_criterion, workers,
                initial_forest>>

\* The barrier returning as soon as one task has completed.
FirstDone == \E i \in 1..Len(futures) : futures[i].done

\* wait(futures, return_when=ALL_COMPLETED) has returned.
AllDone == \A i \in 1..Len(futures) : futures[i].done

\* Lines 68-70: the loop test holds; one task per cluster is submitted.
Submit ==
    /\ pc = "loop"
    /\ check_num_of_clusters
    /\ futures' = [c \in 1..size(forest, NodesOf(data)) |->
                      [ids |-> get_cluster_info(forest, roots, c), done |-> FALSE, result |-> 0]]
    /\ out_of_order' = FALSE
    /\ pc' = "wait"
    /\ volumes' = <<>>
    /\ criterion_fired' = 0
    /\ worst_edge' = NoEdge
    /\ bad_cluster_edges' = <<>>
    /\ max_weight' = 0
    /\ third_evaluated' = FALSE
    /\ UNCHANGED <<ZahnConfig, forest, roots, hv, partition, gg_vars>>

\* __fuzzy_hyper_volume_task in a worker: the pool runs at most `workers` tasks at
\* a time, taking them in submission order; a running task completes at any time.
Complete(i) ==
    /\ pc = "wait"
    /\ ~futures[i].done
    /\ Cardinality({j \in 1..(i - 1) : ~futures[j].done}) < workers
    /\ \E v \in hyper_volume_values(futures[i].ids) :
         /\ futures[i].ids \in DOMAIN hv => v = hv[futures[i].ids]
         /\ hv' = IF futures[i].ids \in DOMAIN hv THEN hv ELSE hv @@ (futures[i].ids :> v)
         /\ futures' = [futures EXCEPT ![i] = [@ EXCEPT !.done = TRUE, !.result = v]]
    /\ out_of_order' = (out_of_order \/ \E j \in 1..(i - 1) : ~futures[j].done)
    /\ UNCHANGED <<ZahnConfig, forest, roots, pc, volumes, partition, criterion_fired,
                   worst_edge, bad_cluster_edges, max_weight, third_evaluated, gg_vars>>

\* Line 74: the results, read future by future in submission order.
Volumes == [i \in 1..Len(futures) |-> futures[i].result]

\* Line 75
volumes_without_noise(vs) == [i \in 1..Len(vs) |-> IF vs[i] = Inf THEN -1 ELSE vs[i]]

\* Line 77 reading the edges of the forest as it was handed in.
StaleBadClusterEdges ==
    get_edges(initial_forest, roots[ArgMax(volumes_without_noise(Volumes))])

\* Line 77
BadClusterEdges == get_edges(forest, roots[ArgMax(volumes_without_noise(Volumes))])

\* Line 79
AllEdges == get_edges(forest, roots[1])

\* Lines 72-81 when the worst cluster has no edge: np.argmax of an empty array
\* raises ValueError (line 81), which leaves __call__.
DecideRaise ==
    /\ pc = "wait"
    /\ AllDone
    /\ BadClusterEdges = <<>>
    /\ pc' = "error"
    /\ volumes' = Volumes
    /\ UNCHANGED <<ZahnConfig, forest, roots, futures, out_of_order, hv, partition,
                   criterion_fired, worst_edge, bad_cluster_edges, max_weight,
                   third_evaluated, gg_vars>>

\* The kernel extended to every id set _check_third_criterion asks for.
Kernels(known, sets) ==
    LET fixed == {S \in sets \ DOMAIN known : Cardinality(S) <= 1}
        free == {S \in sets \ DOMAIN known : Cardinality(S) > 1}
    IN {known @@ [S \in fixed |-> Inf] @@ ext : ext \in [free -> HVValues]}

\* Lines 72-102 after the barrier: the criteria in priority order, then the cut
\* (back to the loop test) or the break.  Of the values criterion 3 computed, hv
\* keeps those of the clusters the cut leaves; the value of a candidate half that
\* did not become a cluster is drawn again if it is asked for later, which allows
\* every behaviour of a kernel that is a function, and more.
Decide ==
    /\ pc = "wait"
    /\ AllDone
    /\ BadClusterEdges # <<>>
    /\ LET bad == BadClusterEdges
           weights == [i \in 1..Len(bad) |-> bad[i].weight]
           max_weight_idx == ArgMax(weights)
           found1 == use_first_criterion /\ check_first_criterion(AllEdges, weights[max_weight_idx])
           index == IF ~found1 /\ use_second_criterion
                      THEN check_second_criterion(AllEdges, bad, weights) ELSE 0
           reach3 == ~found1 /\ index = 0 /\ use_third_criterion
       IN \E kernel \in Kernels(hv, IF reach3 THEN third_sets(bad) ELSE {}),
             inf_identity \in BOOLEAN :
            LET third == IF reach3 THEN check_third_criterion(bad, kernel, inf_identity)
                         ELSE NoEdge
                edge == IF found1 THEN bad[max_weight_idx]
                        ELSE IF index # 0 THEN bad[index]
                        ELSE third
            IN /\ volumes' = Volumes
               /\ bad_cluster_edges' = bad
               /\ max_weight' = weights[max_weight_idx]
               /\ third_evaluated' = reach3
               /\ worst_edge' = edge
               /\ criterion_fired' = IF found1 THEN 1 ELSE IF index # 0 THEN 2
                                     ELSE IF third # NoEdge THEN 3 ELSE 0
               /\ IF edge = NoEdge
                    THEN /\ pc' = "break"
                         /\ UNCHANGED <<forest, roots, hv>>
                    ELSE /\ forest' = remove_edge(forest, edge.first_node, edge.second_node)
                         /\ roots' \in RootOrders(forest', NodesOf(data))
                         /\ hv' = [S \in DOMAIN kernel \cap Trees(forest', NodesOf(data))
                                      |-> kernel[S]]
                         /\ pc' = "loop"
    /\ UNCHANGED <<ZahnConfig, futures, out_of_order, partition, gg_vars>>

\* Lines 104-109, reached when the loop test fails or after the break.
Return ==
    /\ \/ pc = "loop" /\ ~check_num_of_clusters
       \/ pc = "break"
    /\ partition' = [cluster \in 1..size(forest, NodesOf(data)) |->
                        [p \in NodesOf(data) |->
                            IF p \in get_cluster_info(forest, roots, cluster) THEN 1 ELSE 0]]
    /\ pc' = "done"
    /\ UNCHANGED <<ZahnConfig, forest, roots, futures, out_of_order, volumes, hv,
                   criterion_fired, worst_edge, bad_cluster_edges, max_weight,
                   third_evaluated, gg_vars>>

Next ==
    \/ Submit
    \/ \E i \in 1..Len(futures) : Complete(i)
    \/ DecideRaise
    \/ Decide
    \/ Return

Spec == Init /\ [][Next]_vars

----
\* ZahnModel._check_third_criterion on its own: a cluster of four close points
\* and one distant leaf, under every kernel and tolerance.

OutlierTrees == {Path(Outlier5), EdgeSeq(Outlier5, {<<0, 1>>, <<1, 2>>, <<2, 3>>, <<0, 4>>})}

InitThird ==
    /\ scenario = "outlier"
    /\ data = Outlier5
    /\ forest \in OutlierTrees
    /\ roots = <<0>>
    /\ use_first_criterion = FALSE
    /\ use_second_criterion = FALSE
    /\ use_third_criterion = TRUE
    /\ cutting_cond = [num |-> 5, den |-> 2]
    /\ hv_condition \in HvConditions
    /\ num_of_clusters = -1
    /\ workers = 1
    /\ pc = "third"
    /\ futures = <<>>
    /\ out_of_order = FALSE
    /\ volumes = <<>>
    /\ hv \in Kernels(<<>>, third_sets(forest))
    /\ partition = <<>>
    /\ initial_forest = forest
    /\ criterion_fired = 0
    /\ worst_edge = NoEdge
    /\ bad_cluster_edges = <<>>
    /\ max_weight = 0
    /\ third_evaluated = FALSE
    /\ GGOff

\* Line 96: worst_edge = self._check_third_criterion(data, bad_cluster_edges)
ThirdCall ==
    /\ pc = "third"
    /\ \E inf_identity \in BOOLEAN :
         worst_edge' = check_third_criterion(get_edges(forest, roots[1]), hv, inf_identity)
    /\ bad_cluster_edges' = get_edges(forest, roots[1])
    /\ third_evaluated' = TRUE
    /\ pc' = "third_done"
    /\ UNCHANGED <<ZahnConfig, forest, roots, futures, out_of_order, volumes, hv, partition,
                   criterion_fired, max_weight, gg_vars>>

NextThird == ThirdCall

SpecThird == InitThird /\ [][NextThird]_vars

----
\* GathGevaModel.__call__.  A membership is a whole number of 1/360; the
\* weighting exponent is 2, so power = 2 / (2 - 1) = 2, and a log-distance is
\* k * ln 2 with k in LnValues, so exp((d - d') * power) = 4^(k - k').

GGClusters == 2         \* rows of the partition matrix
GGPoints == 2           \* columns of the partition matrix

LnValues == {0, 1}

GGTolerances == {1, 360}

HardPartitions ==
    {[c \in 1..GGClusters |-> [p \in 1..GGPoints |-> IF a[p] = c THEN 360 ELSE 0]] :
        a \in [1..GGPoints -> 1..GGClusters]}

\* Lines 206-207: the rows that are not identically zero, in ascending order.
RECURSIVE Ascending(_)
Ascending(S) == IF S = {} THEN <<>> ELSE <<SetMin(S)>> \o Ascending(S \ {SetMin(S)})

non_noise_clusters(part) ==
    Ascending({c \in 1..Len(part) : \E p \in DOMAIN part[c] : part[c][p] # 0})

InitGG ==
    /\ ZahnOff
    /\ gg_pc = "loop"
    /\ gg_partition \in HardPartitions
    /\ gg_previous = <<>>
    /\ gg_futures = <<>>
    /\ gg_tolerance \in GGTolerances
    /\ gg_workers \in WorkerCounts

\* Lines 210-213 and 241-242: previous_partition is copied and one task per
\* non-noise cluster is submitted.
GGSubmit ==
    /\ gg_pc = "loop"
    /\ gg_previous' = gg_partition
    /\ gg_futures' = [i \in 1..Len(non_noise_clusters(gg_partition)) |->
                         [cluster |-> non_noise_clusters(gg_partition)[i],
                          done |-> FALSE, result |-> <<>>]]
    /\ gg_pc' = "wait"
    /\ UNCHANGED <<zahn_vars, gg_partition, gg_tolerance, gg_workers>>

\* __compute_distances_task in a worker: cluster_ln_distances returns one
\* log-distance per point.
GGComplete(i) ==
    /\ gg_pc = "wait"
    /\ ~gg_futures[i].done
    /\ Cardinality({j \in 1..(i - 1) : ~gg_futures[j].done}) < gg_workers
    /\ \E row \in [1..GGPoints -> LnValues] :
         gg_futures' = [gg_futures EXCEPT ![i] = [@ EXCEPT !.done = TRUE, !.result = row]]
    /\ UNCHANGED <<zahn_vars, gg_pc, gg_partition, gg_previous, gg_tolerance, gg_workers>>

\* 4^k for k in -1..1, times 4 to stay in the integers.
FourPow(k) == IF k = -1 THEN 1 ELSE IF k = 0 THEN 4 ELSE 16

RECURSIVE SumOver(_, _)
SumOver(f, S) == IF S = {} THEN 0
                 ELSE LET x == CHOOSE y \in S : TRUE IN f[x] + SumOver(f, S \ {x})

\* Lines 215-223: the new membership of point_idx in the cluster of future i,
\* 1 / sum over the non-noise clusters of exp((ln_distance - other) * power).
new_partition(i, point_idx) ==
    LET ln_distance == gg_futures[i].result[point_idx]
        terms == [o \in 1..Len(gg_futures) |->
                     FourPow(ln_distance - gg_futures[o].result[point_idx])]
    IN (360 * 4) \div SumOver(terms, 1..Len(gg_futures))

\* Line 225, squared: the squared Frobenius distance of two matrices.
partitions_distance_sq(a, b) ==
    LET cells == {<<c, p>> : c \in 1..Len(a), p \in 1..GGPoints}
        sq == [x \in cells |-> (a[x[1]][x[2]] - b[x[1]][x[2]]) * (a[x[1]][x[2]] - b[x[1]][x[2]])]
    IN SumOver(sq, cells)

\* Lines 244-247 and 215-227, after the barrier: the memberships of the non-noise rows are
\* recomputed, and the loop ends only when the partition moved by less than the
\* tolerance.  There is no other exit from "while True".
GGUpdate ==
    /\ gg_pc = "wait"
    /\ \A i \in 1..Len(gg_futures) : gg_futures[i].done
    /\ LET updated == [c \in 1..Len(gg_partition) |->
                          IF \E i \in 1..Len(gg_futures) : gg_futures[i].cluster = c
                            THEN LET i == CHOOSE k \in 1..Len(gg_futures) :
                                              gg_futures[k].cluster = c
                                 IN [p \in 1..GGPoints |-> new_partition(i, p)]
                          ELSE gg_partition[c]]
       IN /\ gg_partition' = updated
          /\ gg_pc' = IF partitions_distance_sq(updated, gg_previous)
                           < gg_tolerance * gg_tolerance
                        THEN "done" ELSE "loop"
    /\ gg_futures' = <<>>
    /\ UNCHANGED <<zahn_vars, gg_previous, gg_tolerance, gg_workers>>

NextGG ==
    \/ GGSubmit
    \/ \E i \in 1..Len(gg_futures) : GGComplete(i)
    \/ GGUpdate

SpecGG == InitGG /\ [][NextGG]_vars

\* The orchestrator and the workers keep running: a step that is possible is
\* eventually taken.
FairSpecGG == SpecGG /\ WF_vars(NextGG)

----
\* Properties.

Nodes == NodesOf(data)

Ones(row) == {p \in Nodes : row[p] = 1}

Max(a, b) == IF a >= b THEN a ELSE b

\* The rows of matrix m are a hard partition whose clusters are the trees of edges.
IsHardPartitionOf(m, edges) ==
    /\ Len(m) = size(edges, Nodes)
    /\ \A r \in 1..Len(m) : \A p \in Nodes : m[r][p] \in {0, 1}
    /\ \A p \in Nodes : Cardinality({r \in 1..Len(m) : m[r][p] = 1}) = 1
    /\ \A r \in 1..Len(m) : Ones(m[r]) \in Trees(edges, Nodes)

\* C1: the matrix __call__ returns has one row per final tree, entries 0 or 1,
\* exactly one 1 in every column, and row r marks the members of a tree.
C1_HardPartition == pc = "done" => IsHardPartitionOf(partition, forest)

C1_Witness ==
    /\ pc = "done"
    /\ Len(forest) < Len(initial_forest)
    /\ \E r \in 1..Len(partition) : Cardinality(Ones(partition[r])) = 1
    /\ \E r \in 1..Len(partition) : Cardinality(Ones(partition[r])) > 1

\* An iteration has been evaluated and its batch is still on record.
Decided == pc \in {"loop", "break", "error", "done"} /\ futures # <<>>

\* C2: across every step forest.size does not decrease; it grows, by exactly 1,
\* in exactly the steps that apply a cut (an iteration whose criteria selected an
\* edge of the forest, which is removed); an iteration that selects no edge leaves
\* the forest unchanged and leaves the loop.
C2_SizeMonotone ==
    [][LET before == size(forest, Nodes)
           after == size(forest', Nodes)
           iteration == pc = "wait" /\ pc' # "wait"
           cut == iteration /\ criterion_fired' \in 1..3
       IN /\ after >= before
          /\ (after = before + 1) <=> cut
          /\ after # before => after = before + 1
          /\ cut => /\ \E i \in 1..Len(forest) : forest[i] = worst_edge'
                    /\ Range(forest') = Range(forest) \ {worst_edge'}
                    /\ pc' = "loop"
          /\ (iteration /\ ~cut) => (forest' = forest /\ pc' \in {"break", "error"})]_vars

C2_Witness ==
    /\ pc = "break"
    /\ criterion_fired = 0
    /\ size(forest, Nodes) = size(initial_forest, Nodes) + 2

\* C3: with the three criteria disabled the call raises nothing, removes no
\* edge and returns the hard partition of the initial forest.
C3_NoCriteriaNoCut ==
    (~use_first_criterion /\ ~use_second_criterion /\ ~use_third_criterion)
        => /\ pc # "error"
           /\ forest = initial_forest
           /\ pc = "done" => IsHardPartitionOf(partition, initial_forest)

\* C4: whatever the worker count and the completion order, a batch in flight
\* holds one task per cluster of the forest as it is (the forest is not touched
\* during the batch), a completed task holds the kernel's value for its own
\* cluster, and the orchestrator decides only after every task has completed,
\* reading at position i the result of the task submitted for cluster i.
C4_WorkerInvariance ==
    /\ pc = "wait" =>
         /\ Len(futures) = size(forest, Nodes)
         /\ \A i \in 1..Len(futures) :
              /\ futures[i].ids = get_cluster_info(forest, roots, i)
              /\ futures[i].done => /\ futures[i].ids \in DOMAIN hv
                                    /\ futures[i].result = hv[futures[i].ids]
    /\ Decided =>
         /\ Len(volumes) = Len(futures)
         /\ \A i \in 1..Len(futures) : futures[i].done /\ volumes[i] = futures[i].result

C4_Witness ==
    /\ Decided
    /\ workers = 4
    /\ out_of_order
    /\ criterion_fired # 0
    /\ Len(volumes) >= 2
    /\ volumes[1] # volumes[2]

\* C5: on the five collinear points the weight-8 edge is the only edge ever
\* cut, nothing is raised, and the call returns the clusters {0,1,2} and {3,4}.
C5_CollinearTwoClusters ==
    scenario = "collinear" =>
        /\ pc # "error"
        /\ Trees(forest, Nodes) \in {{0..4}, {0..2, 3..4}}
        /\ pc = "done" => Trees(forest, Nodes) = {0..2, 3..4}

\* C7: a worst cluster without internal edges raises no error.
C7_EdgelessWorstHandled == pc # "error"

\* C8: with a cluster-count bound B, no edge is removed in a state where
\* forest.size >= B: the forest never has more than max(initial size, B) trees,
\* and it keeps all its edges when it starts with B trees or more.
C8_ClusterBound ==
    num_of_clusters # -1 =>
        /\ size(forest, Nodes) <= Max(size(initial_forest, Nodes), num_of_clusters)
        /\ forest # initial_forest => size(forest, Nodes) <= num_of_clusters
        /\ size(initial_forest, Nodes) >= num_of_clusters => forest = initial_forest

C8_Witness ==
    /\ num_of_clusters # -1
    /\ pc = "done"
    /\ criterion_fired # 0
    /\ size(forest, Nodes) = num_of_clusters
    /\ size(initial_forest, Nodes) < num_of_clusters

\* The forest an evaluated iteration started from.
ForestBefore == IF criterion_fired # 0 THEN Append(forest, worst_edge) ELSE forest

\* C9: criterion 1 fires exactly when the heaviest edge of the worst cluster
\* weighs at least cutting_cond * (sum of the weights of all the edges of the
\* whole forest) / (N - 1), and it then cuts that heaviest edge.
C9_FirstCriterionWholeForest ==
    (use_first_criterion /\ pc \in {"loop", "break"} /\ bad_cluster_edges # <<>>) =>
        /\ criterion_fired = 1 <=>
              max_weight * (Len(data) - 1) * cutting_cond.den
                  >= cutting_cond.num * SumWeights(ForestBefore)
        /\ criterion_fired = 1 =>
              /\ worst_edge \in Range(bad_cluster_edges)
              /\ worst_edge.weight = max_weight

\* The sum of the two hyper-volumes that removing bad_cluster_edges[i] leaves.
SplitSum(i) == HvAdd(hv[left_cluster_ids(bad_cluster_edges, i)],
                     hv[right_cluster_ids(bad_cluster_edges, i)])

\* The minimal split sum of the cluster, Inf when every split has an infinite side.
MinSplitSum ==
    LET sums == {SplitSum(i) : i \in 1..Len(bad_cluster_edges)}
    IN CHOOSE m \in sums : \A x \in sums : m <= x

\* The long edge: the one that attaches the distant leaf, point 4.
LongEdge == CHOOSE e \in Range(bad_cluster_edges) : e.second_node = 4

\* C6 as stated: with the tolerance below the minimal split sum criterion 3
\* returns the long edge, and with the tolerance above it returns no cut.
C6_ThirdIsolatesOutlier ==
    pc = "third_done" =>
        /\ hv_condition < MinSplitSum => worst_edge = LongEdge
        /\ hv_condition > MinSplitSum => worst_edge = NoEdge

\* C6 amended: criterion 3 never returns the long edge, because the split that
\* isolates the single point has an infinite side and is skipped.  It returns
\* the last-examined edge among those whose split sum is the minimal one when
\* that minimum is finite and strictly above the tolerance, and no cut otherwise.
C6_ThirdSkipsOutlier ==
    pc = "third_done" =>
        /\ worst_edge # LongEdge
        /\ (MinSplitSum # Inf /\ MinSplitSum > hv_condition) =>
              \E i \in 1..Len(bad_cluster_edges) :
                 /\ worst_edge = bad_cluster_edges[i]
                 /\ SplitSum(i) = MinSplitSum
                 /\ \A j \in (i + 1)..Len(bad_cluster_edges) : SplitSum(j) > MinSplitSum
        /\ (MinSplitSum = Inf \/ MinSplitSum <= hv_condition) => worst_edge = NoEdge

C6_Witness ==
    /\ pc = "third_done"
    /\ worst_edge # NoEdge
    /\ hv_condition > 0
    /\ Cardinality({i \in 1..Len(bad_cluster_edges) : SplitSum(i) = MinSplitSum}) > 1

\* C10: the refinement loop returns, whatever the log-distances are.
C10_GathGevaTerminates == <>(gg_pc = "done")

====
